---- MODULE Spec2Model ----
(***************************************************************************)
(* A model of the MCP23017 driver: the register accessor (registers.rs),   *)
(* the pin-mode state machine (pin.rs, pin/input.rs, pin/output.rs,        *)
(* pin/interrupt.rs), the device partition (lib.rs) and the interrupt      *)
(* controller's cache (pin/interrupt.rs).                                  *)
(*                                                                         *)
(* The device is a byte store behind the bus: a write-then-read returns    *)
(* the byte last written at the address, except for the two registers the  *)
(* hardware drives (INTF, INTCAP), whose reads are inputs.  Every bus      *)
(* transaction is one step and may fail; a failed transaction leaves the   *)
(* device as it was.                                                       *)
(***************************************************************************)
EXTENDS Integers, Sequences, FiniteSets, Bags, TLC

VARIABLES
    dev,        \* the device registers: address -> byte
    handles,    \* bag of <<line, mode>>: the line handles the application holds
    ctl,        \* the InterruptController: [live, flag, capture]
    op,         \* line -> the call in progress on that line's handle, up to its return
    sp,         \* the split call in progress on the driver
    svc,        \* the interrupt (service) call in progress on the controller
    nsplit,     \* successful splits so far
    nfail,      \* bus failures so far
    ut,         \* the accessor a register test exercises: [line, reg]
    pend        \* line -> the level of the interrupt recorded for it and not yet consumed

vars == <<dev, handles, ctl, op, sp, svc, nsplit, nfail, ut, pend>>

----------------------------------------------------------------------------
(* Bounds of the model. *)

\* splits a run may perform
MaxSplits == 2
\* bus transactions a run may fail
MaxFail == 1

----------------------------------------------------------------------------
(* u8 arithmetic. *)

Byte == 0..255

Bit(x, i) == (x \div (2 ^ i)) % 2

\* x & y
BitAnd(x, y) ==
    Bit(x, 0) * Bit(y, 0) + 2 * (Bit(x, 1) * Bit(y, 1)) + 4 * (Bit(x, 2) * Bit(y, 2))
    + 8 * (Bit(x, 3) * Bit(y, 3)) + 16 * (Bit(x, 4) * Bit(y, 4))
    + 32 * (Bit(x, 5) * Bit(y, 5)) + 64 * (Bit(x, 6) * Bit(y, 6))
    + 128 * (Bit(x, 7) * Bit(y, 7))

\* x | y
BitOr(x, y) == x + y - BitAnd(x, y)

\* !x
BitNot(x) == 255 - x

\* 1 << n
Shl1(n) == (2 ^ n) % 256

----------------------------------------------------------------------------
(* Line identities (pin.rs). *)

Bank == {"A", "B"}

Line == Bank \X (0..7)

BANK(l) == l[1]

NUMBER(l) == l[2]

\* (mutant) the bound on I left out: every line may be configured as an input
InputPinIdAll(l) == NUMBER(l) \in 0..7

\* the lines that may be configured as inputs: all but A7 and B7
InputPinId(l) == NUMBER(l) \in 0..6

----------------------------------------------------------------------------
(* Register map (registers.rs). *)

IODIR == 0
GPINTEN == 4
DEFVAL == 6
INTCON == 8
GPPU == 12
INTF == 14
INTCAP == 16
GPIO == 18

Bases == {IODIR, GPINTEN, DEFVAL, INTCON, GPPU, INTF, INTCAP, GPIO}

\* (mutant) the bank is ignored
addressNoShift(bank, base) == base

\* Registers::address
address(bank, base) == base + (IF bank = "A" THEN 0 ELSE 1)

Addr == {address(b, r) : b \in Bank, r \in Bases}

\* (mutant) the mask is not shifted to the line's bit
GetBitLow(read, n) == BitAnd(read, 1) # 0

\* the value Registers::get returns for the byte read
GetBit(read, n) == BitAnd(read, Shl1(n)) # 0

\* (mutant) the mask that clears the bit is not inverted
SetByteNoInvert(read, n, bit) ==
    IF bit THEN BitOr(read, Shl1(n)) ELSE BitAnd(read, Shl1(n))

\* the byte Registers::set writes back for the byte read
SetByte(read, n, bit) ==
    IF bit THEN BitOr(read, Shl1(n)) ELSE BitAnd(read, BitNot(Shl1(n)))

\* the device's register file at power-on reset: IODIR all ones, the rest zero
ResetDev == [a \in Addr |-> IF a \in {address(b, IODIR) : b \in Bank} THEN 255 ELSE 0]

----------------------------------------------------------------------------
(* Pin modes and the operations each mode offers. *)

Mode == {"InF", "InP", "Out", "IntF", "IntP"}

Sense == {"High", "Low", "Edge"}

\* the argument of a method that takes none
NoArg == "-"

\* the methods (with their argument) that exist on Pin<I, mode>
Methods(m, l) ==
    CASE m = "InF" ->
            ({"into_pull_up_input", "into_push_pull_output", "is_high", "is_low"} \X {NoArg})
            \cup ({"enable_interrupt"} \X Sense)
      [] m = "InP" ->
            ({"into_floating_input", "into_push_pull_output", "is_high", "is_low"} \X {NoArg})
            \cup ({"enable_interrupt"} \X Sense)
      [] m = "Out" ->
            ({"set_low", "set_high", "is_set_high", "is_set_low"} \X {NoArg})
            \cup (IF InputPinId(l)
                  THEN {"into_floating_input", "into_pull_up_input"} \X {NoArg}
                  ELSE {})
      [] OTHER ->
            {"is_high", "is_low", "disable_interrupt"} \X {NoArg}

\* one call of the register accessor by the handle of line l
Acc(l, acc, reg, bit) == [line |-> l, acc |-> acc, reg |-> reg, bit |-> bit]

\* (mutant) the direction is never written
OutputToInputNoDir(l, pull) == <<Acc(l, "set", GPPU, pull)>>

\* Pin<Output>::into_floating_input / into_pull_up_input: the pull, then the direction
OutputToInput(l, pull) == <<Acc(l, "set", GPPU, pull), Acc(l, "set", IODIR, TRUE)>>

\* Pin<Input<C>>::enable_interrupt: the sense, then the enable
EnableInterrupt(l, sense) ==
    CASE sense = "High" ->
            <<Acc(l, "set", INTCON, TRUE), Acc(l, "set", DEFVAL, FALSE),
              Acc(l, "set", GPINTEN, TRUE)>>
      [] sense = "Low" ->
            <<Acc(l, "set", INTCON, TRUE), Acc(l, "set", DEFVAL, TRUE),
              Acc(l, "set", GPINTEN, TRUE)>>
      [] OTHER ->
            <<Acc(l, "set", INTCON, FALSE), Acc(l, "set", GPINTEN, TRUE)>>

\* the accessor calls a method makes, in order
Calls(m, name, sense, l) ==
    CASE name = "into_floating_input" ->
            IF m = "Out" THEN OutputToInput(l, FALSE) ELSE <<Acc(l, "set", GPPU, FALSE)>>
      [] name = "into_pull_up_input" ->
            IF m = "Out" THEN OutputToInput(l, TRUE) ELSE <<Acc(l, "set", GPPU, TRUE)>>
      [] name = "into_push_pull_output" -> <<Acc(l, "set", IODIR, FALSE)>>
      [] name = "enable_interrupt" -> EnableInterrupt(l, sense)
      [] name = "disable_interrupt" -> <<Acc(l, "set", GPINTEN, FALSE)>>
      [] name = "set_low" -> <<Acc(l, "set", GPIO, FALSE)>>
      [] name = "set_high" -> <<Acc(l, "set", GPIO, TRUE)>>
      [] OTHER -> <<Acc(l, "get", GPIO, FALSE)>>

\* the methods that take the handle by value
Consuming(name) ==
    name \in {"into_floating_input", "into_pull_up_input", "into_push_pull_output",
              "enable_interrupt", "disable_interrupt"}

\* the mode of the handle a method returns (its own mode when it only borrows)
NewMode(m, name) ==
    CASE name = "into_floating_input" -> "InF"
      [] name = "into_pull_up_input" -> "InP"
      [] name = "into_push_pull_output" -> "Out"
      [] name = "enable_interrupt" -> IF m = "InF" THEN "IntF" ELSE "IntP"
      [] name = "disable_interrupt" -> IF m = "IntF" THEN "InF" ELSE "InP"
      [] OTHER -> m

\* what a method returns for the bit its last get returned
Returned(name, val) ==
    CASE name \in {"get", "is_high", "is_set_high"} -> IF val THEN "true" ELSE "false"
      [] name \in {"is_low", "is_set_low"} -> IF ~val THEN "true" ELSE "false"
      [] OTHER -> "Ok"

----------------------------------------------------------------------------
(* Calls in progress. *)

\* A call from its entry to its return: the accessor calls it has still to
\* make, the bytes of its last transaction, and how it ended.  intx: it is
\* inside a bus transaction; panic: it reached unreachable!().
Idle ==
    [name |-> "idle", from |-> "-", sense |-> NoArg, body |-> <<>>, calls |-> <<>>,
     phase |-> "read", read |-> 0, val |-> FALSE, hit |-> FALSE, ntx |-> 0,
     txk |-> "-", addr |-> 0, err |-> FALSE, intx |-> FALSE, panic |-> FALSE]

NewOp(m, name, sense, calls) ==
    [Idle EXCEPT !.name = name, !.from = m, !.sense = sense, !.body = calls,
                 !.calls = calls]

IsIdle(o) == o.name = "idle"

\* the call has made its last transaction and is about to return
Returning(o) == ~IsIdle(o) /\ (o.err \/ o.calls = <<>>)

\* the call has a transaction to make
Running(o) == ~IsIdle(o) /\ ~o.err /\ o.calls # <<>>

\* the method whose value a sequence of two calls ends with
LastMethod(name) ==
    CASE name = "set_get" -> "get"
      [] name = "set_high_is_set_high" -> "is_set_high"
      [] name = "set_low_is_set_low" -> "is_set_low"
      [] OTHER -> name

\* what the returning call o hands to its caller
Result(o) ==
    CASE o.err -> "Err"
      [] o.name = "triggered" ->
            IF o.hit THEN (IF o.val THEN "Some(true)" ELSE "Some(false)") ELSE "None"
      [] OTHER -> Returned(LastMethod(o.name), o.val)

\* The next bus transaction of the call o: [o |-> the call after it, dev |-> the
\* device after it].  get is one write_read; set is a write_read, then a write of
\* the byte read with the line's bit forced.  A failed transaction ends the call.
BusStep(o, ok) ==
    LET c == Head(o.calls)
        a == address(BANK(c.line), c.reg)
        n == NUMBER(c.line)
        k == IF c.acc = "set" /\ o.phase = "write" THEN "write" ELSE "write_read"
        t == [o EXCEPT !.addr = a, !.txk = k, !.ntx = @ + 1]
    IN  IF ~ok
        THEN [o |-> [t EXCEPT !.err = TRUE], dev |-> dev]
        ELSE IF c.acc = "get"
        THEN [o |-> [t EXCEPT !.calls = Tail(@), !.read = dev[a],
                              !.val = GetBit(dev[a], n)],
              dev |-> dev]
        ELSE IF o.phase = "read"
        THEN [o |-> [t EXCEPT !.phase = "write", !.read = dev[a]], dev |-> dev]
        ELSE [o |-> [t EXCEPT !.calls = Tail(@), !.phase = "read"],
              dev |-> [dev EXCEPT ![a] = SetByte(o.read, n, c.bit)]]

\* (mutant) methods borrow the handle instead of taking it
TakenNot(l, m, name) == handles

\* the handles left to the caller when a method is entered on <<l, m>>: a method
\* that takes self by value takes the handle
Taken(l, m, name) ==
    IF Consuming(name) THEN handles (-) SetToBag({<<l, m>>}) ELSE handles

\* (mutant) the retyped handle is given back whether or not the writes succeeded
YieldedOnErr(l, o) ==
    IF Consuming(o.name)
    THEN SetToBag({<<l, NewMode(o.from, o.name)>>})
    ELSE EmptyBag

\* the handles the returning call o on line l gives its caller: the retyped
\* handle on Ok, none on Err (`?` returns early and self is dropped)
Yielded(l, o) ==
    IF Consuming(o.name) /\ ~o.err
    THEN SetToBag({<<l, NewMode(o.from, o.name)>>})
    ELSE EmptyBag

\* a method is entered on the live handle of line l
Call(l, m, name, sense) ==
    /\ BagIn(<<l, m>>, handles)
    /\ IsIdle(op[l])
    /\ <<name, sense>> \in Methods(m, l)
    /\ op' = [op EXCEPT ![l] = NewOp(m, name, sense, Calls(m, name, sense, l))]
    /\ handles' = Taken(l, m, name)
    /\ UNCHANGED <<dev, ctl, sp, svc, nsplit, nfail, ut, pend>>

\* the call in progress on line l performs its next bus transaction
Txn(l, ok) ==
    /\ Running(op[l])
    /\ op[l].name # "triggered"
    /\ ok \/ nfail < MaxFail
    /\ LET r == BusStep(op[l], ok)
       IN  /\ dev' = r.dev
           /\ op' = [op EXCEPT ![l] = r.o]
    /\ nfail' = IF ok THEN nfail ELSE nfail + 1
    /\ UNCHANGED <<handles, ctl, sp, svc, nsplit, ut, pend>>

\* the call on line l returns
Return(l) ==
    /\ Returning(op[l])
    /\ op[l].name # "triggered"
    /\ handles' = handles (+) Yielded(l, op[l])
    /\ op' = [op EXCEPT ![l] = Idle]
    /\ UNCHANGED <<dev, ctl, sp, svc, nsplit, nfail, ut, pend>>

----------------------------------------------------------------------------
(* Mcp23017::split and the end of the borrow it starts. *)

\* the handles split returns: A7 and B7 as outputs, the rest as floating inputs
SplitPins ==
    SetToBag({<<l, IF NUMBER(l) = 7 THEN "Out" ELSE "InF">> : l \in Line})

\* InterruptController::new
NewController ==
    [live |-> TRUE, flag |-> [b \in Bank |-> 0], capture |-> [b \in Bank |-> 0]]

\* no controller is alive
NoController ==
    [live |-> FALSE, flag |-> [b \in Bank |-> 0], capture |-> [b \in Bank |-> 0]]

\* the accessor calls of split: a7 and b7 are converted with into_push_pull_output
SplitCalls ==
    Calls("InF", "into_push_pull_output", NoArg, <<"A", 7>>)
    \o Calls("InF", "into_push_pull_output", NoArg, <<"B", 7>>)

\* split borrows the driver mutably for as long as anything it returned lives
Borrowable ==
    /\ handles = EmptyBag
    /\ ~ctl.live
    /\ \A l \in Line : IsIdle(op[l])
    /\ IsIdle(svc)

SplitCall ==
    /\ IsIdle(sp)
    /\ Borrowable
    /\ nsplit < MaxSplits
    /\ sp' = NewOp("-", "split", NoArg, SplitCalls)
    /\ UNCHANGED <<dev, handles, ctl, op, svc, nsplit, nfail, ut, pend>>

SplitTxn(ok) ==
    /\ Running(sp)
    /\ ok \/ nfail < MaxFail
    /\ LET r == BusStep(sp, ok)
       IN  /\ dev' = r.dev
           /\ sp' = r.o
    /\ nfail' = IF ok THEN nfail ELSE nfail + 1
    /\ UNCHANGED <<handles, ctl, op, svc, nsplit, ut, pend>>

SplitReturn ==
    /\ Returning(sp)
    /\ sp' = Idle
    /\ IF sp.err
       THEN UNCHANGED <<handles, ctl, nsplit>>
       ELSE /\ handles' = handles (+) SplitPins
            /\ ctl' = NewController
            /\ nsplit' = nsplit + 1
    /\ UNCHANGED <<dev, op, svc, nfail, ut, pend>>

\* the pins and the controller go out of scope
DropAll ==
    /\ IsIdle(sp)
    /\ IsIdle(svc)
    /\ \A l \in Line : IsIdle(op[l])
    /\ handles # EmptyBag \/ ctl.live
    /\ handles' = EmptyBag
    /\ ctl' = NoController
    /\ UNCHANGED <<dev, op, sp, svc, nsplit, nfail, ut, pend>>

----------------------------------------------------------------------------
(* InterruptController::interrupt and InterruptController::triggered. *)

\* An interrupt call from its entry to its return: its place, its locals, and
\* the flag and capture bitmaps as they were when it was entered.  busy: its
\* error is AtomicError::Busy.
SvcIdle ==
    [name |-> "idle", bank |-> "-", pc |-> "-", intf_read |-> 0, intcap_read |-> 0,
     intcap |-> 0, err |-> FALSE, busy |-> FALSE, ntx |-> 0, addr |-> 0,
     flag0 |-> [b \in Bank |-> 0], cap0 |-> [b \in Bank |-> 0]]

\* (mutant) the address is not shifted for bank B
ServiceAddrNoShift(bank, base) == base

\* intf_address / intcap_address
ServiceAddr(bank, base) == base + (IF bank = "A" THEN 0 ELSE 1)

\* (mutant) the flag is stored, not or-ed
FetchOrStore(x, intf_read) == intf_read

\* the value fetch_or(intf_read) leaves in the flag
FetchOr(x, intf_read) == BitOr(x, intf_read)

\* (mutant) the stored capture is not masked before the sum
MergeUnmasked(intcap, intf_read, intcap_read) ==
    (intcap + BitAnd(intcap_read, intf_read)) % 256

\* (mutant) the byte read from INTCAP is or-ed in without its mask
MergeOrRead(intcap, intf_read, intcap_read) ==
    BitOr(BitAnd(intcap, BitNot(intf_read)), intcap_read)

\* (mutant) the byte read from INTCAP is added without its mask
MergeReadUnmasked(intcap, intf_read, intcap_read) ==
    (BitAnd(intcap, BitNot(intf_read)) + intcap_read) % 256

\* the capture byte interrupt stores: the stored bits outside intf_read plus
\* the bits read inside it (a u8 sum)
Merge(intcap, intf_read, intcap_read) ==
    LET masked_intcap_read == BitAnd(intcap_read, intf_read)
        masked_intcap == BitAnd(intcap, BitNot(intf_read))
    IN  (masked_intcap + masked_intcap_read) % 256

\* (mutant) the mask is not inverted
FetchAndSame(x, mask) == BitAnd(x, mask)

\* the value fetch_and(!mask) leaves
FetchAndNot(x, mask) == BitAnd(x, BitNot(mask))

\* the interrupts a returning interrupt call has recorded: for each line of its
\* bank whose INTF bit it read as 1, the INTCAP bit it read; when the read of
\* INTCAP failed, the bit recorded before, or "any" if none is waiting
Recorded(v) ==
    [l \in Line |->
        IF l[1] = v.bank /\ Bit(v.intf_read, l[2]) = 1
        THEN (IF ~v.err THEN (IF Bit(v.intcap_read, l[2]) = 1 THEN "1" ELSE "0")
              ELSE IF pend[l] \in {"0", "1"} THEN pend[l] ELSE "any")
        ELSE pend[l]]

ServiceCall(b) ==
    /\ ctl.live
    /\ IsIdle(svc)
    /\ svc' = [SvcIdle EXCEPT !.name = "interrupt", !.bank = b, !.pc = "intf",
                              !.flag0 = ctl.flag, !.cap0 = ctl.capture]
    /\ UNCHANGED <<dev, handles, ctl, op, sp, nsplit, nfail, ut, pend>>

\* write_read of INTF
SvcIntf(ok) ==
    /\ svc.pc = "intf"
    /\ ok \/ nfail < MaxFail
    /\ LET a == ServiceAddr(svc.bank, INTF)
       IN  svc' = IF ok
                  THEN [svc EXCEPT !.intf_read = dev[a], !.pc = "flag", !.addr = a,
                                   !.ntx = @ + 1]
                  ELSE [svc EXCEPT !.err = TRUE, !.pc = "ret", !.addr = a, !.ntx = @ + 1]
    /\ nfail' = IF ok THEN nfail ELSE nfail + 1
    /\ UNCHANGED <<dev, handles, ctl, op, sp, nsplit, ut, pend>>

\* interrupt_flag.fetch_or(intf_read)
SvcFlag ==
    /\ svc.pc = "flag"
    /\ ctl' = [ctl EXCEPT !.flag[svc.bank] = FetchOr(@, svc.intf_read)]
    /\ svc' = [svc EXCEPT !.pc = "intcap"]
    /\ UNCHANGED <<dev, handles, op, sp, nsplit, nfail, ut, pend>>

\* write_read of INTCAP
SvcIntcap(ok) ==
    /\ svc.pc = "intcap"
    /\ ok \/ nfail < MaxFail
    /\ LET a == ServiceAddr(svc.bank, INTCAP)
       IN  svc' = IF ok
                  THEN [svc EXCEPT !.intcap_read = dev[a], !.pc = "load", !.addr = a,
                                   !.ntx = @ + 1]
                  ELSE [svc EXCEPT !.err = TRUE, !.pc = "ret", !.addr = a, !.ntx = @ + 1]
    /\ nfail' = IF ok THEN nfail ELSE nfail + 1
    /\ UNCHANGED <<dev, handles, ctl, op, sp, nsplit, ut, pend>>

\* interrupt_capture.load
SvcLoad ==
    /\ svc.pc = "load"
    /\ svc' = [svc EXCEPT !.intcap = ctl.capture[svc.bank], !.pc = "store"]
    /\ UNCHANGED <<dev, handles, ctl, op, sp, nsplit, nfail, ut, pend>>

\* interrupt_capture.store(modified)
SvcStore ==
    /\ svc.pc = "store"
    /\ ctl' = [ctl EXCEPT !.capture[svc.bank] =
                  Merge(svc.intcap, svc.intf_read, svc.intcap_read)]
    /\ svc' = [svc EXCEPT !.pc = "ret"]
    /\ UNCHANGED <<dev, handles, op, sp, nsplit, nfail, ut, pend>>

SvcReturn ==
    /\ svc.pc = "ret"
    /\ svc' = SvcIdle
    /\ pend' = Recorded(svc)
    /\ UNCHANGED <<dev, handles, ctl, op, sp, nsplit, nfail, ut>>

\* (mutant) the mask is not shifted to the line's bit
TrigMaskLow(l) == 1

\* let mask = 1 << I::NUMBER
TrigMask(l) == Shl1(NUMBER(l))

\* triggered is entered with a reference to the interrupt handle of line l
TrigCall(l, m) ==
    /\ ctl.live
    /\ m \in {"IntF", "IntP"}
    /\ BagIn(<<l, m>>, handles)
    /\ IsIdle(op[l])
    /\ op' = [op EXCEPT ![l] =
                 NewOp(m, "triggered", NoArg,
                       <<Acc(l, "flag", 0, FALSE), Acc(l, "capture", 0, FALSE)>>)]
    /\ UNCHANGED <<dev, handles, ctl, sp, svc, nsplit, nfail, ut, pend>>

\* interrupt_flag.fetch_and(!mask); the capture is left alone when the bit was 0
TrigFlag(l) ==
    /\ Running(op[l])
    /\ op[l].name = "triggered"
    /\ Head(op[l].calls).acc = "flag"
    /\ LET mask == TrigMask(l)
           read == ctl.flag[BANK(l)]
           hit == BitAnd(read, mask) # 0
       IN  /\ ctl' = [ctl EXCEPT !.flag[BANK(l)] = FetchAndNot(read, mask)]
           /\ op' = [op EXCEPT ![l].read = read, ![l].hit = hit,
                               ![l].calls = IF hit THEN Tail(@) ELSE <<>>]
    /\ UNCHANGED <<dev, handles, sp, svc, nsplit, nfail, ut, pend>>

\* interrupt_capture.fetch_and(!mask)
TrigCapture(l) ==
    /\ Running(op[l])
    /\ op[l].name = "triggered"
    /\ Head(op[l].calls).acc = "capture"
    /\ LET mask == TrigMask(l)
           read == ctl.capture[BANK(l)]
       IN  /\ ctl' = [ctl EXCEPT !.capture[BANK(l)] = FetchAndNot(read, mask)]
           /\ op' = [op EXCEPT ![l].read = read, ![l].val = BitAnd(read, mask) # 0,
                               ![l].calls = Tail(@)]
    /\ UNCHANGED <<dev, handles, sp, svc, nsplit, nfail, ut, pend>>

TrigReturn(l) ==
    /\ Returning(op[l])
    /\ op[l].name = "triggered"
    /\ op' = [op EXCEPT ![l] = Idle]
    /\ pend' = [pend EXCEPT ![l] = IF op[l].hit THEN "used" ELSE @]
    /\ UNCHANGED <<dev, handles, ctl, sp, svc, nsplit, nfail, ut>>

\* the hardware raises an interrupt on bank b: it sets INTF and INTCAP
HwRaise(b, e) ==
    /\ dev' = [dev EXCEPT ![ServiceAddr(b, INTF)] = e[1], ![ServiceAddr(b, INTCAP)] = e[2]]
    /\ dev' # dev
    /\ UNCHANGED <<handles, ctl, op, sp, svc, nsplit, nfail, ut, pend>>

----------------------------------------------------------------------------
(* The driver used from one context: a call is entered only when none is in
   progress.  The application works on the lines of SeqLines. *)

SeqLines == {<<"A", 7>>, <<"B", 3>>, <<"B", 7>>}

\* no register test is set up
NoTest == [line |-> <<"-", 0>>, reg |-> 0]

Quiet == IsIdle(sp) /\ IsIdle(svc) /\ \A l \in Line : IsIdle(op[l])

Init ==
    /\ dev = ResetDev
    /\ handles = EmptyBag
    /\ ctl = NoController
    /\ op = [l \in Line |-> Idle]
    /\ sp = Idle
    /\ svc = SvcIdle
    /\ nsplit = 0
    /\ nfail = 0
    /\ ut = NoTest
    /\ pend = [l \in Line |-> "none"]

Next ==
    \/ Quiet /\ SplitCall
    \/ \E ok \in BOOLEAN : SplitTxn(ok)
    \/ SplitReturn
    \/ Quiet /\ DropAll
    \/ Quiet /\ \E l \in SeqLines, m \in Mode :
            /\ BagIn(<<l, m>>, handles)
            /\ \E c \in Methods(m, l) : Call(l, m, c[1], c[2])
    \/ \E l \in SeqLines, ok \in BOOLEAN : Txn(l, ok)
    \/ \E l \in SeqLines : Return(l)

Spec == Init /\ [][Next]_vars

----------------------------------------------------------------------------
(* The register accessor on its own: one Registers<I> is exercised on one
   register of a device whose registers hold arbitrary bytes, with set, get,
   set followed by get, and on GPIO the level calls of the pin that owns it. *)

\* the bytes the registers of bank A and of bank B hold at the start
Fills == {<<0, 255>>, <<255, 0>>, <<165, 90>>, <<90, 165>>, <<0, 0>>, <<255, 255>>}

AccessorTests == {"set", "get", "set_get"}

LevelTests == {"is_high", "is_low", "set_high_is_set_high", "set_low_is_set_low"}

\* the accessor calls of a test on register reg by the accessor of line l
TestCalls(name, l, reg, bit) ==
    CASE name = "set" -> <<Acc(l, "set", reg, bit)>>
      [] name = "get" -> <<Acc(l, "get", reg, FALSE)>>
      [] name = "set_get" -> <<Acc(l, "set", reg, bit), Acc(l, "get", reg, FALSE)>>
      [] name = "set_high_is_set_high" ->
            Calls("Out", "set_high", NoArg, l) \o Calls("Out", "is_set_high", NoArg, l)
      [] name = "set_low_is_set_low" ->
            Calls("Out", "set_low", NoArg, l) \o Calls("Out", "is_set_low", NoArg, l)
      [] OTHER -> Calls("InF", name, NoArg, l)

RegCall(name, bit) ==
    /\ IsIdle(op[ut.line])
    /\ name \in AccessorTests \/ (name \in LevelTests /\ ut.reg = GPIO)
    /\ bit \/ name \in {"set", "set_get"}
    /\ op' = [op EXCEPT ![ut.line] =
                 NewOp("-", name, NoArg, TestCalls(name, ut.line, ut.reg, bit))]
    /\ UNCHANGED <<dev, handles, ctl, sp, svc, nsplit, nfail, ut, pend>>

RegInit ==
    /\ \E f \in Fills : dev = [a \in Addr |-> IF a % 2 = 0 THEN f[1] ELSE f[2]]
    /\ handles = EmptyBag
    /\ ctl = NoController
    /\ op = [l \in Line |-> Idle]
    /\ sp = Idle
    /\ svc = SvcIdle
    /\ nsplit = 0
    /\ nfail = 0
    /\ ut \in [line : Line, reg : Bases]
    /\ pend = [l \in Line |-> "none"]

RegNext ==
    \/ \E name \in AccessorTests \cup LevelTests, bit \in BOOLEAN : RegCall(name, bit)
    \/ \E ok \in BOOLEAN : Txn(ut.line, ok)
    \/ Return(ut.line)

RegSpec == RegInit /\ [][RegNext]_vars

----------------------------------------------------------------------------
(* The interrupt controller after split and enable_interrupt(Edge) on the
   lines of IntLines: the hardware raises interrupts, the application calls
   interrupt and triggered, one call at a time. *)

IntLines == {<<"A", 0>>, <<"A", 1>>, <<"B", 0>>}

\* the (INTF, INTCAP) bytes the hardware presents
HwEvents(b) ==
    IF b = "A" THEN {<<1, 0>>, <<3, 1>>, <<2, 2>>} ELSE {<<1, 1>>, <<1, 0>>}

\* IODIR bit 7 cleared by split, GPINTEN set for the lines of IntLines
CacheDev ==
    [a \in Addr |->
        CASE a \in {0, 1} -> 127
          [] a = 4 -> 3
          [] a = 5 -> 1
          [] OTHER -> 0]

\* the handles split returned, those of IntLines turned into interrupt handles
CacheHandles ==
    SetToBag({<<l, IF l \in IntLines THEN "IntF"
                   ELSE IF NUMBER(l) = 7 THEN "Out" ELSE "InF">> : l \in Line})

CacheInit ==
    /\ dev = CacheDev
    /\ handles = CacheHandles
    /\ ctl = NewController
    /\ op = [l \in Line |-> Idle]
    /\ sp = Idle
    /\ svc = SvcIdle
    /\ nsplit = 1
    /\ nfail = 0
    /\ ut = NoTest
    /\ pend = [l \in Line |-> "none"]

CacheNext ==
    \/ \E b \in Bank : \E e \in HwEvents(b) : HwRaise(b, e)
    \/ Quiet /\ \E b \in Bank : ServiceCall(b)
    \/ \E ok \in BOOLEAN : SvcIntf(ok)
    \/ SvcFlag
    \/ \E ok \in BOOLEAN : SvcIntcap(ok)
    \/ SvcLoad
    \/ SvcStore
    \/ SvcReturn
    \/ Quiet /\ \E l \in IntLines, m \in {"IntF", "IntP"} : TrigCall(l, m)
    \/ \E l \in IntLines : TrigFlag(l)
    \/ \E l \in IntLines : TrigCapture(l)
    \/ \E l \in IntLines : TrigReturn(l)

CacheSpec == CacheInit /\ [][CacheNext]_vars

----------------------------------------------------------------------------
(* interrupt alone, entered with flag and capture bitmaps left by earlier
   calls and with INTF and INTCAP bytes left by the hardware.  The capture of
   a bank is always within its flag when interrupt is entered: interrupt sets
   capture bits only where it sets flag bits, and triggered clears both. *)

ByteSamples == {0, 255, 165, 90}

Bitmaps == {p \in ByteSamples \X ByteSamples : BitAnd(p[2], BitNot(p[1])) = 0}

ServiceInit ==
    /\ \E f \in ByteSamples, c \in ByteSamples :
          dev = [a \in Addr |->
                    CASE a \in {0, 1} -> 127
                      [] a \in {4, 5} -> 255
                      [] a \in {14, 17} -> f
                      [] a \in {15, 16} -> c
                      [] OTHER -> 0]
    /\ handles = CacheHandles
    /\ \E pa \in Bitmaps, pb \in Bitmaps :
          ctl = [live |-> TRUE, flag |-> [b \in Bank |-> IF b = "A" THEN pa[1] ELSE pb[1]],
                 capture |-> [b \in Bank |-> IF b = "A" THEN pa[2] ELSE pb[2]]]
    /\ op = [l \in Line |-> Idle]
    /\ sp = Idle
    /\ svc = SvcIdle
    /\ nsplit = 1
    /\ nfail = 0
    /\ ut = NoTest
    /\ pend = [l \in Line |-> "none"]

ServiceNext ==
    \/ \E b \in Bank : ServiceCall(b)
    \/ \E ok \in BOOLEAN : SvcIntf(ok)
    \/ SvcFlag
    \/ \E ok \in BOOLEAN : SvcIntcap(ok)
    \/ SvcLoad
    \/ SvcStore
    \/ SvcReturn

ServiceSpec == ServiceInit /\ [][ServiceNext]_vars

----------------------------------------------------------------------------
(* The interrupt controller next to mode transitions of the interrupt lines:
   CacheSpec with disable_interrupt and enable_interrupt on the lines of
   ModeLines, and with a hardware that also clears INTF. *)

ModeLines == {<<"A", 0>>, <<"B", 0>>}

PendMethods == {<<"disable_interrupt", NoArg>>, <<"enable_interrupt", "Edge">>}

PendEvents(b) ==
    IF b = "A" THEN {<<1, 1>>, <<2, 0>>, <<0, 0>>} ELSE {<<1, 0>>}

PendNext ==
    \/ \E b \in Bank : \E e \in PendEvents(b) : HwRaise(b, e)
    \/ Quiet /\ \E b \in Bank : ServiceCall(b)
    \/ \E ok \in BOOLEAN : SvcIntf(ok)
    \/ SvcFlag
    \/ \E ok \in BOOLEAN : SvcIntcap(ok)
    \/ SvcLoad
    \/ SvcStore
    \/ SvcReturn
    \/ Quiet /\ \E l \in IntLines, m \in {"IntF", "IntP"} : TrigCall(l, m)
    \/ \E l \in IntLines : TrigFlag(l)
    \/ \E l \in IntLines : TrigCapture(l)
    \/ \E l \in IntLines : TrigReturn(l)
    \/ Quiet /\ \E l \in ModeLines, m \in Mode :
            /\ BagIn(<<l, m>>, handles)
            /\ \E c \in Methods(m, l) \cap PendMethods : Call(l, m, c[1], c[2])
    \/ \E l \in ModeLines, ok \in BOOLEAN : Txn(l, ok)
    \/ \E l \in ModeLines : Return(l)

PendSpec == CacheInit /\ [][PendNext]_vars

----------------------------------------------------------------------------
(* Two interrupt calls whose steps interleave: while the call of svc is in
   progress, a context that preempts it makes a complete interrupt call.
   (interrupt takes the controller by &mut, so callers reach this only by
   sharing the controller outside the borrow rules.) *)

\* a complete interrupt(b) call: both reads, the flag update and the capture
\* update, or its early return at the read that fails
NestedInterrupt(b, fail) ==
    /\ ctl.live
    /\ ~IsIdle(svc)
    /\ fail = "none" \/ nfail < MaxFail
    /\ LET f == dev[ServiceAddr(b, INTF)]
           c == dev[ServiceAddr(b, INTCAP)]
       IN  /\ ctl' = CASE fail = "intf" -> ctl
                       [] fail = "intcap" -> [ctl EXCEPT !.flag[b] = FetchOr(@, f)]
                       [] OTHER -> [ctl EXCEPT !.flag[b] = FetchOr(@, f),
                                               !.capture[b] = Merge(@, f, c)]
           /\ pend' = Recorded([SvcIdle EXCEPT !.bank = b,
                                               !.intf_read = IF fail = "intf" THEN 0 ELSE f,
                                               !.intcap_read = c,
                                               !.err = (fail # "none")])
    /\ nfail' = IF fail = "none" THEN nfail ELSE nfail + 1
    /\ UNCHANGED <<dev, handles, op, sp, svc, nsplit, ut>>

IsrEvents(b) ==
    IF b = "A" THEN {<<1, 1>>, <<2, 2>>} ELSE {<<1, 1>>}

IsrNext ==
    \/ \E b \in Bank : \E e \in IsrEvents(b) : HwRaise(b, e)
    \/ Quiet /\ \E b \in Bank : ServiceCall(b)
    \/ \E ok \in BOOLEAN : SvcIntf(ok)
    \/ SvcFlag
    \/ \E ok \in BOOLEAN : SvcIntcap(ok)
    \/ SvcLoad
    \/ SvcStore
    \/ SvcReturn
    \/ \E fail \in {"none", "intf", "intcap"} : NestedInterrupt(svc.bank, fail)

IsrSpec == CacheInit /\ [][IsrNext]_vars

----------------------------------------------------------------------------
(* triggered called between the steps of an interrupt call: interrupt is
   entered with no other call in progress, triggered at any time.  (interrupt
   takes the controller by &mut and triggered by &, so callers reach this only
   by sharing the controller outside the borrow rules.) *)

RaceLines == {<<"A", 0>>}

RaceEvents(b) ==
    IF b = "A" THEN {<<1, 1>>, <<1, 0>>} ELSE {<<1, 1>>}

RaceNext ==
    \/ \E b \in Bank : \E e \in RaceEvents(b) : HwRaise(b, e)
    \/ Quiet /\ \E b \in Bank : ServiceCall(b)
    \/ \E ok \in BOOLEAN : SvcIntf(ok)
    \/ SvcFlag
    \/ \E ok \in BOOLEAN : SvcIntcap(ok)
    \/ SvcLoad
    \/ SvcStore
    \/ SvcReturn
    \/ \E l \in RaceLines, m \in {"IntF", "IntP"} : TrigCall(l, m)
    \/ \E l \in RaceLines : TrigFlag(l)
    \/ \E l \in RaceLines : TrigCapture(l)
    \/ \E l \in RaceLines : TrigReturn(l)

RaceSpec == CacheInit /\ [][RaceNext]_vars

----------------------------------------------------------------------------
(* The shared bus.  Every handle and the controller reach the bus through
   their own AtomicDevice on one AtomicCell: a transaction is entered only
   when no other is in progress, and an attempt made while one is in progress
   returns AtomicError::Busy at once.  A normal context uses the handles of
   MainLines; an interrupt context that preempts it, between or inside its
   transactions, calls interrupt or uses the handles of IsrLines and runs to
   its end before the normal context goes on.  A call that reaches
   unreachable!() panics: the program goes no further. *)

\* a transaction is in progress on the bus
BusBusy == \E l \in Line : op[l].intx

\* nothing has reached unreachable!()
NoPanic == \A l \in Line : ~op[l].panic

\* (mutant) the bus is kept between the read and the write of a set
HeldForSet(o) == [o EXCEPT !.intx = (Head(o.calls).acc = "set" /\ o.phase = "read")]

\* the call at the end of a transaction: the bus is released
Released(o) == [o EXCEPT !.intx = FALSE]

\* (mutant) contention is reported as a transport error
BusyAsOther(v) == [v EXCEPT !.err = TRUE, !.pc = "ret"]

\* interrupt returns the AtomicError::Busy of its write_read through `?`
BusyResult(v) == [v EXCEPT !.err = TRUE, !.busy = TRUE, !.pc = "ret"]

\* the call on line l enters its next transaction: the bus was free
TxnBegin(l) ==
    /\ Running(op[l])
    /\ op[l].name # "triggered"
    /\ ~BusBusy
    /\ op' = [op EXCEPT ![l].intx = TRUE]
    /\ UNCHANGED <<dev, handles, ctl, sp, svc, nsplit, nfail, ut, pend>>

\* the transaction the call on line l is in ends, and the bus is released
TxnEnd(l, ok) ==
    /\ op[l].intx
    /\ ok \/ nfail < MaxFail
    /\ LET r == BusStep(Released(op[l]), ok)
       IN  /\ dev' = r.dev
           /\ op' = [op EXCEPT ![l] = r.o]
    /\ nfail' = IF ok THEN nfail ELSE nfail + 1
    /\ UNCHANGED <<handles, ctl, sp, svc, nsplit, ut, pend>>

\* the call on line l finds the bus busy: get / set return AtomicError::Busy,
\* and `?` converts it into Error, which is unreachable!()
TxnBusy(l) ==
    /\ Running(op[l])
    /\ op[l].name # "triggered"
    /\ ~op[l].intx
    /\ BusBusy
    /\ op' = [op EXCEPT ![l].err = TRUE, ![l].panic = TRUE]
    /\ UNCHANGED <<dev, handles, ctl, sp, svc, nsplit, nfail, ut, pend>>

\* interrupt finds the bus busy at one of its two reads
SvcBusy ==
    /\ svc.pc \in {"intf", "intcap"}
    /\ BusBusy
    /\ svc' = BusyResult(svc)
    /\ UNCHANGED <<dev, handles, ctl, op, sp, nsplit, nfail, ut, pend>>

MainLines == {<<"A", 0>>}

IsrLines == {<<"A", 1>>}

BusMethods == {<<"set_high", NoArg>>, <<"set_low", NoArg>>}

BusEvents(b) == IF b = "A" THEN {<<4, 4>>} ELSE {<<1, 0>>}

\* the interrupt context is not running
IsrIdle == IsIdle(svc) /\ \A l \in IsrLines : IsIdle(op[l])

\* after split, with A0 and A1 turned into outputs
BusInit ==
    /\ dev = [a \in Addr |-> CASE a = 0 -> 124 [] a = 1 -> 127 [] OTHER -> 0]
    /\ handles = SetToBag({<<l, IF NUMBER(l) = 7 \/ l \in MainLines \cup IsrLines
                                THEN "Out" ELSE "InF">> : l \in Line})
    /\ ctl = NewController
    /\ op = [l \in Line |-> Idle]
    /\ sp = Idle
    /\ svc = SvcIdle
    /\ nsplit = 1
    /\ nfail = 0
    /\ ut = NoTest
    /\ pend = [l \in Line |-> "none"]

BusNext ==
    \/ NoPanic /\ \E b \in Bank : \E e \in BusEvents(b) : HwRaise(b, e)
    \/ IsrIdle /\ \E l \in MainLines, c \in BusMethods : Call(l, "Out", c[1], c[2])
    \/ IsrIdle /\ \E l \in MainLines : TxnBegin(l)
    \/ IsrIdle /\ \E l \in MainLines, ok \in BOOLEAN : TxnEnd(l, ok)
    \/ IsrIdle /\ \E l \in MainLines : Return(l)
    \/ IsrIdle /\ \E b \in Bank : ServiceCall(b)
    \/ SvcBusy
    \/ ~BusBusy /\ \E ok \in BOOLEAN : SvcIntf(ok)
    \/ SvcFlag
    \/ ~BusBusy /\ \E ok \in BOOLEAN : SvcIntcap(ok)
    \/ SvcLoad
    \/ SvcStore
    \/ SvcReturn
    \/ IsrIdle /\ \E l \in IsrLines, c \in BusMethods : Call(l, "Out", c[1], c[2])
    \/ \E l \in IsrLines : TxnBusy(l)
    \/ ~BusBusy /\ \E l \in IsrLines, ok \in BOOLEAN : Txn(l, ok)
    \/ NoPanic /\ \E l \in IsrLines : Return(l)

BusSpec == BusInit /\ [][BusNext]_vars

----------------------------------------------------------------------------
(* triggered alone, called for the lines of IntLines from several contexts at
   once (it takes the controller by shared reference), on flag and capture
   bitmaps left by earlier interrupt calls. *)

\* what is waiting for line l under the bitmaps fl and cp of its bank
Waiting(l, fl, cp) ==
    IF Bit(fl, l[2]) = 0 THEN "none" ELSE IF Bit(cp, l[2]) = 1 THEN "1" ELSE "0"

TrigInit ==
    /\ dev = CacheDev
    /\ handles = CacheHandles
    /\ \E pa \in Bitmaps, pb \in Bitmaps :
          /\ ctl = [live |-> TRUE,
                    flag |-> [b \in Bank |-> IF b = "A" THEN pa[1] ELSE pb[1]],
                    capture |-> [b \in Bank |-> IF b = "A" THEN pa[2] ELSE pb[2]]]
          /\ pend = [l \in Line |-> IF l[1] = "A" THEN Waiting(l, pa[1], pa[2])
                                     ELSE Waiting(l, pb[1], pb[2])]
    /\ op = [l \in Line |-> Idle]
    /\ sp = Idle
    /\ svc = SvcIdle
    /\ nsplit = 1
    /\ nfail = 0
    /\ ut = NoTest

TrigNext ==
    \/ \E l \in IntLines, m \in {"IntF", "IntP"} : TrigCall(l, m)
    \/ \E l \in IntLines : TrigFlag(l)
    \/ \E l \in IntLines : TrigCapture(l)
    \/ \E l \in IntLines : TrigReturn(l)

TrigSpec == TrigInit /\ [][TrigNext]_vars

----------------------------------------------------------------------------
(* The capture merge of interrupt over a wider range of bytes: interrupt(A)
   and interrupt(B) entered with a stored capture x (left, with flag x, by an
   earlier call that read INTF = INTCAP = x) and with INTF = f, INTCAP = c at
   the device of bank A. *)

MergeBytes == (0..15) \cup {85, 170, 240, 255}

MergeInit ==
    /\ \E f \in MergeBytes, c \in MergeBytes :
          dev = [a \in Addr |->
                    CASE a \in {0, 1} -> 127
                      [] a \in {4, 5} -> 255
                      [] a = 14 -> f
                      [] a = 16 -> c
                      [] OTHER -> 0]
    /\ handles = CacheHandles
    /\ \E x \in MergeBytes :
          ctl = [live |-> TRUE, flag |-> [b \in Bank |-> IF b = "A" THEN x ELSE 0],
                 capture |-> [b \in Bank |-> IF b = "A" THEN x ELSE 0]]
    /\ op = [l \in Line |-> Idle]
    /\ sp = Idle
    /\ svc = SvcIdle
    /\ nsplit = 1
    /\ nfail = 0
    /\ ut = NoTest
    /\ pend = [l \in Line |-> "none"]

MergeSpec == MergeInit /\ [][ServiceNext]_vars

----------------------------------------------------------------------------
(* What the claims read off a state. *)

\* the bit of line l in the register with bank-A address base
DevBit(l, base) == Bit(dev[base + (IF l[1] = "B" THEN 1 ELSE 0)], l[2])

\* the live handles of line l that the application holds
Held(l) ==
    CopiesIn(<<l, "InF">>, handles) + CopiesIn(<<l, "InP">>, handles)
    + CopiesIn(<<l, "Out">>, handles) + CopiesIn(<<l, "IntF">>, handles)
    + CopiesIn(<<l, "IntP">>, handles)

\* the device bits a handle of mode m on line l stands for
Agrees(l, m) ==
    CASE m = "Out" -> DevBit(l, 0) = 0
      [] m = "InF" -> DevBit(l, 0) = 1 /\ DevBit(l, 12) = 0 /\ DevBit(l, 4) = 0
      [] m = "InP" -> DevBit(l, 0) = 1 /\ DevBit(l, 12) = 1 /\ DevBit(l, 4) = 0
      [] m = "IntF" -> DevBit(l, 0) = 1 /\ DevBit(l, 12) = 0 /\ DevBit(l, 4) = 1
      [] OTHER -> DevBit(l, 0) = 1 /\ DevBit(l, 12) = 1 /\ DevBit(l, 4) = 1

----------------------------------------------------------------------------
(* C1: after one successful split of a device at its reset values and any
   sequence of mode transitions and level reads and writes that completed
   without a bus failure, every live handle's mode agrees with the device bits
   of its line: Output has IODIR = 0; Input(Floating) has IODIR = 1, GPPU = 0,
   GPINTEN = 0; Input(PullUp) has IODIR = 1, GPPU = 1, GPINTEN = 0;
   Interrupt(C) has IODIR = 1, GPPU as for C, GPINTEN = 1. *)
C1_ModeAgreesWithDevice ==
    (nsplit = 1 /\ nfail = 0) =>
        \A l \in Line, m \in Mode : BagIn(<<l, m>>, handles) => Agrees(l, m)

\* B3 went through output and pull-up input to an armed pull-up interrupt while
\* A7 was driven high
C1_Witness ==
    /\ nsplit = 1 /\ nfail = 0
    /\ BagIn(<<<<"B", 3>>, "IntP">>, handles)
    /\ DevBit(<<"B", 3>>, 8) = 1 /\ DevBit(<<"B", 3>>, 6) = 1
    /\ DevBit(<<"A", 7>>, 18) = 1
    /\ BagIn(<<<<"A", 7>>, "Out">>, handles)

(* C2: in every reachable state, whatever calls succeeded or failed, a handle
   of A7 or B7 is an Output handle, and the calls in progress on it are the
   level calls of an output, none of which retypes it. *)
C2_ReservedStayOutput ==
    \A b \in Bank :
        /\ \A m \in Mode : BagIn(<<<<b, 7>>, m>>, handles) => m = "Out"
        /\ op[<<b, 7>>].name \in {"idle", "set_low", "set_high", "is_set_high", "is_set_low"}
        /\ op[<<b, 7>>].from \in {"-", "Out"}

\* A7 is still an output after a second split, a failed call and a level write
C2_Witness ==
    /\ nsplit = 2 /\ nfail = 1
    /\ BagIn(<<<<"A", 7>>, "Out">>, handles)
    /\ op[<<"A", 7>>].name = "set_low" /\ Returning(op[<<"A", 7>>])
    /\ DevBit(<<"A", 7>>, 18) = 0
    /\ BagIn(<<<<"B", 3>>, "Out">>, handles)

(* C3: at every point there is at most one live handle per line, counting the
   handle a mode transition in progress has taken; and there is none before
   split has returned them. *)
C3_OneHandlePerLine ==
    /\ \A l \in Line :
          Held(l) + (IF ~IsIdle(op[l]) /\ Consuming(op[l].name) THEN 1 ELSE 0) <= 1
    /\ nsplit = 0 => handles = EmptyBag

\* after a second split, B3 was retyped twice and is being retyped again
C3_Witness ==
    /\ nsplit = 2
    /\ op[<<"B", 3>>].name = "enable_interrupt" /\ op[<<"B", 3>>].from = "InP"
    /\ op[<<"B", 3>>].ntx = 3
    /\ Held(<<"B", 3>>) = 0
    /\ Held(<<"B", 7>>) = 1 /\ Held(<<"A", 0>>) = 1

(* C4: a mode transition one of whose bus transactions failed makes no further
   transaction and changes no register from the failure on (the writes it made
   before stay), returns Err, and leaves no handle of the line, old or new;
   in particular an Output-to-Input transition that failed on IODIR leaves the
   GPPU bit at the requested pull and the IODIR bit at 0. *)
C4_FailedTransition ==
    [][\A l \in Line :
          /\ (Running(op[l]) /\ op'[l].err) => dev' = dev
          /\ (op[l].err /\ Consuming(op[l].name)) =>
                /\ dev' = dev
                /\ Result(op[l]) = "Err"
                /\ IsIdle(op'[l])
                /\ Held(l)' = 0
          /\ (op'[l].err /\ op'[l].from = "Out" /\ Len(op'[l].calls) = 1
                /\ op'[l].name \in {"into_floating_input", "into_pull_up_input"}) =>
                /\ DevBit(l, 12)' = (IF op'[l].name = "into_pull_up_input" THEN 1 ELSE 0)
                /\ DevBit(l, 0)' = 0
                /\ DevBit(l, 0) = 0]_vars

\* into_pull_up_input on the output B3 failed at the write of IODIR, with the
\* pull-up already connected
C4_Witness ==
    /\ op[<<"B", 3>>].err
    /\ op[<<"B", 3>>].name = "into_pull_up_input" /\ op[<<"B", 3>>].from = "Out"
    /\ op[<<"B", 3>>].ntx = 4
    /\ DevBit(<<"B", 3>>, 12) = 1

(* C5: when split is about to return Ok, whatever the device held before, IODIR
   bit 7 is 0 in both banks and each of the fourteen other lines has IODIR = 1
   and GPPU = 0; a live controller that no interrupt call has touched has flag
   and capture zero in both banks. *)
C5_SplitPostcondition ==
    (Returning(sp) /\ ~sp.err) =>
        \A l \in Line :
            IF l[2] = 7 THEN DevBit(l, 0) = 0
            ELSE DevBit(l, 0) = 1 /\ DevBit(l, 12) = 0

(* C6: the write of a set whose read was its line's last bus transaction
   changes the device at one place only: bit NUMBER of the byte at the
   register's address shifted to the line's bank, which becomes the requested
   bit; the seven other bits of the byte, the register of the other bank and
   every other register keep their values.  No other step changes the device. *)
C6_SetFrame ==
    [][dev' # dev =>
          \E l \in Line :
              /\ Running(op[l]) /\ op[l].phase = "write" /\ op'[l].ntx = op[l].ntx + 1
              /\ LET c == Head(op[l].calls)
                     a == c.reg + (IF l[1] = "B" THEN 1 ELSE 0)
                 IN  /\ c.line = l
                     /\ \A x \in Addr \ {a} : dev'[x] = dev[x]
                     /\ \A i \in 0..7 :
                           Bit(dev'[a], i) =
                               IF i = l[2] THEN (IF c.bit THEN 1 ELSE 0)
                               ELSE Bit(dev[a], i)]_vars

\* the accessor of B5 cleared bit 5 of GPPU in bank B, which held 165, and
\* nothing else
C6_Witness ==
    /\ ut = [line |-> <<"B", 5>>, reg |-> 12]
    /\ op[<<"B", 5>>].name = "set" /\ Returning(op[<<"B", 5>>]) /\ ~op[<<"B", 5>>].err
    /\ dev[13] = 133 /\ dev[12] = 90 /\ dev[1] = 165

(* C7: a set(register, b) followed by a get(register) by the same accessor with
   no bus traffic between them returns b, for every line, register and prior
   byte; on GPIO, set_high then is_set_high returns true and set_low then
   is_set_low returns true. *)
C7_SetThenGet ==
    \A l \in Line :
        (Returning(op[l]) /\ ~op[l].err) =>
            /\ op[l].name = "set_get" => op[l].val = op[l].body[1].bit
            /\ op[l].name \in {"set_high_is_set_high", "set_low_is_set_low"} =>
                  Result(op[l]) = "true"

\* set(DEFVAL, false) then get on A6 returned false where the byte held 255
C7_Witness ==
    /\ ut = [line |-> <<"A", 6>>, reg |-> 6]
    /\ op[<<"A", 6>>].name = "set_get" /\ Returning(op[<<"A", 6>>])
    /\ ~op[<<"A", 6>>].err /\ ~op[<<"A", 6>>].body[1].bit
    /\ op[<<"A", 6>>].read = 191 /\ dev[7] = 0

(* C8: a get(register) by the accessor of line (bank, index) makes exactly one
   bus transaction, a write-then-read at base + 0 for bank A and base + 1 for
   bank B, and returns true exactly when bit index of the byte read is 1;
   is_high returns true exactly when the line's GPIO bit is 1 and is_low
   exactly when it is 0. *)
C8_GetReadsOwnBit ==
    \A l \in Line :
        (Returning(op[l]) /\ ~op[l].err) =>
            /\ op[l].name \in {"get", "is_high", "is_low"} =>
                  /\ op[l].ntx = 1
                  /\ op[l].txk = "write_read"
                  /\ op[l].addr = ut.reg + (IF l[1] = "A" THEN 0 ELSE 1)
                  /\ op[l].read = dev[op[l].addr]
            /\ op[l].name = "get" => (Result(op[l]) = "true") = (Bit(op[l].read, l[2]) = 1)
            /\ op[l].name = "is_high" => (Result(op[l]) = "true") = (DevBit(l, 18) = 1)
            /\ op[l].name = "is_low" => (Result(op[l]) = "true") = (DevBit(l, 18) = 0)
            /\ op[l].name \in {"get", "is_high", "is_low"} => Result(op[l]) \in {"true", "false"}

\* get(INTCAP) on B2 read 90 at address 17 and returned false
C8_Witness ==
    /\ ut = [line |-> <<"B", 2>>, reg |-> 16]
    /\ op[<<"B", 2>>].name = "get" /\ Returning(op[<<"B", 2>>])
    /\ op[<<"B", 2>>].addr = 17 /\ op[<<"B", 2>>].read = 90
    /\ Result(op[<<"B", 2>>]) = "false"

(* C9: an interrupt call on a bank that completes with no other call in
   between, having read the byte f from INTF and the byte c from INTCAP,
   leaves the flag of the bank equal to its old flag OR f, the capture of the
   bank equal to (old capture AND NOT f) OR (c AND f), and the flag and the
   capture of the other bank as they were. *)
C9_ServiceMerge ==
    (svc.pc = "ret" /\ ~svc.err) =>
        LET f == svc.intf_read
            c == svc.intcap_read
        IN  /\ \A i \in 0..7 :
                  /\ Bit(ctl.flag[svc.bank], i) =
                        (IF Bit(f, i) = 1 THEN 1 ELSE Bit(svc.flag0[svc.bank], i))
                  /\ Bit(ctl.capture[svc.bank], i) =
                        (IF Bit(f, i) = 1 THEN Bit(c, i) ELSE Bit(svc.cap0[svc.bank], i))
            /\ \A b \in Bank \ {svc.bank} :
                  ctl.flag[b] = svc.flag0[b] /\ ctl.capture[b] = svc.cap0[b]
            /\ f = dev[14 + (IF svc.bank = "A" THEN 0 ELSE 1)]
            /\ c = dev[16 + (IF svc.bank = "A" THEN 0 ELSE 1)]

\* interrupt(B) entered with flag 165 and capture 165, read INTF = 255 and
\* INTCAP = 90: it leaves flag 255 and capture 90, bank A keeps 165 / 0
C9_Witness ==
    /\ svc.pc = "ret" /\ ~svc.err /\ svc.bank = "B"
    /\ svc.flag0["B"] = 165 /\ svc.cap0["B"] = 165
    /\ svc.intf_read = 255 /\ svc.intcap_read = 90
    /\ ctl.flag["B"] = 255 /\ ctl.capture["B"] = 90
    /\ ctl.flag["A"] = 165 /\ ctl.capture["A"] = 0

(* C10: an interrupt recorded by interrupt is consumed exactly once.  After an
   interrupt call that returned Ok and had read the line's INTF bit as 1, the
   first triggered on the line returns Some(level), level being the line's bit
   of the INTCAP byte that call read; every triggered after it returns None
   until an interrupt call again reads the line's INTF bit as 1. *)
C10_ConsumedOnce ==
    \A l \in Line :
        (Returning(op[l]) /\ op[l].name = "triggered") =>
            /\ pend[l] = "1" => Result(op[l]) = "Some(true)"
            /\ pend[l] = "0" => Result(op[l]) = "Some(false)"
            /\ pend[l] \in {"none", "used"} => Result(op[l]) = "None"

\* triggered on A0 returns None after an earlier triggered consumed the
\* interrupt, while the interrupt of A1 recorded with it is still waiting
C10_Witness ==
    /\ Returning(op[<<"A", 0>>]) /\ op[<<"A", 0>>].name = "triggered"
    /\ pend[<<"A", 0>>] = "used" /\ pend[<<"A", 1>>] = "0"
    /\ Result(op[<<"A", 0>>]) = "None"
    /\ ctl.flag["A"] = 2

\* what triggered returns for a line with w waiting
Expected(w) ==
    CASE w = "1" -> "Some(true)"
      [] w = "0" -> "Some(false)"
      [] OTHER -> "None"

(* C11: a step of triggered(line) changes no bit of flag or capture but the
   line's own bit in its own bank; when the line's flag bit is clear it
   changes nothing and returns None without reaching the capture; so, with
   triggered calls for several waiting lines interleaved in any order, each
   call returns what was waiting for its own line. *)
C11_TriggeredFrame ==
    [][ /\ \A b \in Bank, i \in 0..7 :
              (\/ Bit(ctl'.flag[b], i) # Bit(ctl.flag[b], i)
               \/ Bit(ctl'.capture[b], i) # Bit(ctl.capture[b], i))
              => /\ op[<<b, i>>].name = "triggered"
                 /\ op'[<<b, i>>] # op[<<b, i>>]
                 /\ Bit(ctl.flag[b], i) = 1 \/ op[<<b, i>>].hit
        /\ \A l \in Line :
              (/\ Running(op[l]) /\ op[l].name = "triggered" /\ op'[l] # op[l]
               /\ Head(op[l].calls).acc = "flag"
               /\ Bit(ctl.flag[l[1]], l[2]) = 0)
              => /\ ctl' = ctl
                 /\ Returning(op'[l])
                 /\ Result(op'[l]) = "None"
        /\ \A l \in Line :
              (Returning(op'[l]) /\ ~Returning(op[l]) /\ op'[l].name = "triggered")
              => Result(op'[l]) = Expected(pend[l])
      ]_vars

\* with flag 255 and capture 165 on bank A, triggered on A0 has returned
\* Some(true) while triggered on A1 stands between its two steps: only bits 0
\* and 1 of the flag and bit 0 of the capture have changed
C11_Witness ==
    /\ Returning(op[<<"A", 0>>]) /\ Result(op[<<"A", 0>>]) = "Some(true)"
    /\ op[<<"A", 1>>].name = "triggered" /\ op[<<"A", 1>>].hit
    /\ Len(op[<<"A", 1>>].calls) = 1
    /\ pend[<<"A", 0>>] = "1" /\ pend[<<"A", 1>>] = "0"
    /\ ctl.flag["A"] = 252 /\ ctl.capture["A"] = 164

(* C12: a flag bit set by interrupt stays set until the triggered call of its
   own line: no later interrupt call on either bank (whatever INTF it reads,
   0 included), no triggered call for another line and no mode transition of
   any line (disable_interrupt on the waiting line included) clears it. *)
C12_PendingPersists ==
    [][ /\ ctl'.live
        /\ \A b \in Bank, i \in 0..7 :
              (Bit(ctl.flag[b], i) = 1 /\ Bit(ctl'.flag[b], i) = 0)
              => /\ op[<<b, i>>].name = "triggered"
                 /\ op'[<<b, i>>] # op[<<b, i>>]
      ]_vars

\* A0 is waiting and its handle has been turned back into an input (GPINTEN
\* bit cleared); a later interrupt(A) read INTF = 0 and the bit is still set
C12_Witness ==
    /\ BagIn(<<<<"A", 0>>, "InF">>, handles)
    /\ Bit(dev[4], 0) = 0
    /\ svc.pc = "ret" /\ ~svc.err /\ svc.bank = "A" /\ svc.intf_read = 0
    /\ svc.flag0["A"] = 1
    /\ ctl.flag["A"] = 1

(* C13: over every sequence of interrupt calls (returning Ok, or failing at
   the read of INTF or at the read of INTCAP) and triggered calls, when
   triggered on a line returns Some(level), an interrupt call that read the
   line's INTF bit as 1 has read an INTCAP byte, and level is the line's bit
   of that byte. *)
C13_LevelOfLastInterrupt ==
    \A l \in Line :
        (Returning(op[l]) /\ op[l].name = "triggered" /\ op[l].hit) =>
            /\ pend[l] \in {"0", "1"}
            /\ Result(op[l]) = Expected(pend[l])

\* the level a capture bit stands for
Level(bit) == IF bit = 1 THEN "1" ELSE "0"

(* C14: two interrupt calls on the same bank whose steps interleave leave the
   flag and the capture of the bank as the two calls made one after the other
   would: every INTF bit read by either call is set in the flag, and for each
   such bit the capture holds the INTCAP bit read by a call that saw that INTF
   bit set. *)
C14_InterleavedMerge ==
    (svc.pc = "ret" /\ ~svc.err) =>
        \A l \in Line :
            l[1] = svc.bank =>
                LET seen == ({pend[l]} \cap {"0", "1"})
                            \cup (IF Bit(svc.intf_read, l[2]) = 1
                                  THEN {Level(Bit(svc.intcap_read, l[2]))}
                                  ELSE {})
                IN  seen # {} =>
                        /\ Bit(ctl.flag[l[1]], l[2]) = 1
                        /\ Level(Bit(ctl.capture[l[1]], l[2])) \in seen

(* C15: a triggered call that runs between the steps of an interrupt call on
   its line's bank returns what it would have returned before that call or
   after it: None, or Some of the level recorded for the interrupt it consumes,
   never the level of another interrupt. *)
C15_TriggeredDuringInterrupt ==
    \A l \in Line :
        (/\ Returning(op[l]) /\ op[l].name = "triggered"
         /\ svc.pc = "ret" /\ ~svc.err /\ svc.bank = l[1]
         /\ pend[l] # "any")
        => Result(op[l]) \in {Expected(pend[l]), Expected(Recorded(svc)[l])}

(* C16: an interrupt call made by the interrupt context while a transaction
   of another handle is in progress returns at once with the contention
   error, which a transport error never is: it makes no bus transaction and
   leaves the device, the flag and the capture of both banks unchanged. *)
C16_BusyInterrupt ==
    [][ /\ (svc.pc \in {"intf", "intcap"} /\ BusBusy /\ svc' # svc)
            => /\ svc'.err /\ svc'.busy /\ svc'.pc = "ret"
               /\ svc'.ntx = svc.ntx
               /\ ctl' = ctl
               /\ dev' = dev
        /\ (svc'.pc = "ret" /\ svc.pc # "ret" /\ svc'.err) => (svc'.busy <=> BusBusy)
        /\ svc'.busy
            => /\ svc'.ntx = 0
               /\ ctl'.flag = svc'.flag0
               /\ ctl'.capture = svc'.cap0
      ]_vars

\* interrupt(A) has returned Busy while set_high on A0 is inside its write
\* transaction; the flag recorded by an earlier interrupt call is untouched
C16_Witness ==
    /\ svc.busy /\ svc.pc = "ret" /\ svc.bank = "A" /\ svc.ntx = 0
    /\ op[<<"A", 0>>].intx /\ op[<<"A", 0>>].phase = "write"
    /\ ctl.flag["A"] = 4 /\ ctl.capture["A"] = 4

(* C17: with every handle used by one context only, the normal context using
   some handles and an interrupt context that preempts it using others, no
   operation of a line finds the bus busy, so unreachable!() in the conversion
   of AtomicError into Error is never reached. *)
C17_BusyUnreachable ==
    \A l \in Line : ~op[l].panic

(* C18: the read-modify-write of set is not atomic at the device.  The bus is
   released at the end of every transaction, the read of a set included, and
   the write of a set stores the byte it read with only its own bit forced:
   what a complete set of another line wrote to the byte in between is
   overwritten by the stale byte, and both calls return Ok. *)
C18_SetNotAtomic ==
    [][ \A l \in Line :
          (op[l].intx /\ op'[l] # op[l]) =>
              /\ ~op'[l].intx
              /\ (op[l].phase = "write" /\ ~op'[l].err) =>
                    \A i \in 0..7 :
                        Bit(dev'[op'[l].addr], i) =
                            IF i = l[2] THEN (IF Head(op[l].calls).bit THEN 1 ELSE 0)
                            ELSE Bit(op[l].read, i)
      ]_vars

\* set_high on A0 read GPIOA = 0 and is about to write; in between, set_high
\* on A1 ran to its end and left GPIOA = 2, which the write will overwrite
C18_Witness ==
    /\ op[<<"A", 0>>].name = "set_high" /\ op[<<"A", 0>>].phase = "write"
    /\ ~op[<<"A", 0>>].intx /\ op[<<"A", 0>>].read = 0
    /\ IsrIdle /\ nfail = 0
    /\ dev[18] = 2

\* the device rule for level interrupts: an enabled line (GPINTEN = 1)
\* compared against DEFVAL (INTCON = 1) raises an interrupt while its level
\* differs from its DEFVAL bit
LevelRaises(l, level) ==
    /\ DevBit(l, 4) = 1
    /\ DevBit(l, 8) = 1
    /\ level # DevBit(l, 6)

\* the device rule for edge interrupts: an enabled line compared against its
\* previous value (INTCON = 0) raises an interrupt on any change
EdgeRaises(l) ==
    /\ DevBit(l, 4) = 1
    /\ DevBit(l, 8) = 0

(* C19: as the documentation of Sense says, a successful
   enable_interrupt(Sense::High) leaves the line raising an interrupt on low
   level and not on high level, enable_interrupt(Sense::Low) on high level and
   not on low level, and enable_interrupt(Sense::Edge) on either edge. *)
C19_SenseAsDocumented ==
    \A l \in Line :
        (Returning(op[l]) /\ ~op[l].err /\ op[l].name = "enable_interrupt") =>
            /\ op[l].sense = "High" => (LevelRaises(l, 0) /\ ~LevelRaises(l, 1))
            /\ op[l].sense = "Low" => (LevelRaises(l, 1) /\ ~LevelRaises(l, 0))
            /\ op[l].sense = "Edge" => EdgeRaises(l)

\* the rows of the transition table: the register bits written, in order
Row(from, name, sense) ==
    CASE name = "into_floating_input" /\ from = "InP" -> <<<<12, FALSE>>>>
      [] name = "into_pull_up_input" /\ from = "InF" -> <<<<12, TRUE>>>>
      [] name = "into_push_pull_output" -> <<<<0, FALSE>>>>
      [] name = "into_floating_input" /\ from = "Out" -> <<<<12, FALSE>>, <<0, TRUE>>>>
      [] name = "into_pull_up_input" /\ from = "Out" -> <<<<12, TRUE>>, <<0, TRUE>>>>
      [] name = "enable_interrupt" /\ sense = "High" ->
            <<<<8, TRUE>>, <<6, FALSE>>, <<4, TRUE>>>>
      [] name = "enable_interrupt" /\ sense = "Low" ->
            <<<<8, TRUE>>, <<6, TRUE>>, <<4, TRUE>>>>
      [] name = "enable_interrupt" /\ sense = "Edge" -> <<<<8, FALSE>>, <<4, TRUE>>>>
      [] name = "disable_interrupt" -> <<<<4, FALSE>>>>
      [] OTHER -> <<>>

\* the sense bits of line l are those of the requested sense
SenseBits(l, sense) ==
    CASE sense = "High" -> DevBit(l, 8) = 1 /\ DevBit(l, 6) = 0
      [] sense = "Low" -> DevBit(l, 8) = 1 /\ DevBit(l, 6) = 1
      [] OTHER -> DevBit(l, 8) = 0

\* a mode transition of line l writes, one after the other, the register bits
\* of its row and no other register
WritesItsRow(l) ==
    /\ (Consuming(op'[l].name) /\ ~Returning(op[l]) /\ Returning(op'[l]) /\ ~op'[l].err)
        => /\ [k \in 1..Len(op'[l].body) |->
                  <<op'[l].body[k].reg, op'[l].body[k].bit>>]
                = Row(op'[l].from, op'[l].name, op'[l].sense)
           /\ \A k \in 1..Len(op'[l].body) :
                  op'[l].body[k].acc = "set" /\ op'[l].body[k].line = l
           /\ op'[l].ntx = 2 * Len(op'[l].body)
    /\ (Consuming(op[l].name) /\ op'[l] # op[l] /\ dev' # dev)
        => LET row == Row(op[l].from, op[l].name, op[l].sense)
               k == Len(row) - Len(op[l].calls) + 1
               a == row[k][1] + (IF l[1] = "A" THEN 0 ELSE 1)
           IN  /\ k \in 1..Len(row)
               /\ \A x \in Addr \ {a} : dev'[x] = dev[x]
               /\ \A i \in 0..7 :
                     Bit(dev'[a], i) = IF i = l[2] THEN (IF row[k][2] THEN 1 ELSE 0)
                                       ELSE Bit(dev[a], i)

(* C20: every successful mode transition makes exactly the register
   bit-writes of its row of the transition table, in the order listed, and
   writes no other register; enable_interrupt writes the sense before the
   enable, so that at no point of it the line is armed (GPINTEN = 1) with
   sense bits that differ from the requested sense. *)
C20_TransitionWrites ==
    [][ \A l \in Line :
          /\ WritesItsRow(l)
          /\ (op[l].name = "enable_interrupt" /\ DevBit(l, 4) = 1)
              => SenseBits(l, op[l].sense)
      ]_vars

(* C21: every interrupt call that returns Ok makes exactly two bus
   transactions, first the read of INTF and then the read of INTCAP, each at
   the address of the requested bank (base + 0 for A, base + 1 for B); the
   flag is updated between the two and the capture after them; neither read
   writes to the device.  triggered makes no bus transaction. *)
C21_TwoReads ==
    [][ /\ (svc.name = "interrupt" /\ svc'.name = "interrupt" /\ svc'.ntx # svc.ntx) =>
              /\ svc'.ntx = svc.ntx + 1
              /\ dev' = dev
              /\ svc.ntx = 0 =>
                    /\ svc'.addr = 14 + (IF svc.bank = "A" THEN 0 ELSE 1)
                    /\ ctl.flag = svc.flag0
                    /\ ~svc'.err => svc'.intf_read = dev[svc'.addr]
              /\ svc.ntx = 1 =>
                    /\ svc'.addr = 16 + (IF svc.bank = "A" THEN 0 ELSE 1)
                    /\ \A i \in 0..7 :
                          Bit(svc.intf_read, i) = 1 => Bit(ctl.flag[svc.bank], i) = 1
                    /\ ctl.capture = svc.cap0
                    /\ ~svc'.err => svc'.intcap_read = dev[svc'.addr]
        /\ (svc'.name = "interrupt" /\ svc' # svc) => svc'.ntx \in {svc.ntx, svc.ntx + 1}
        /\ ctl'.flag # ctl.flag => (svc.name = "interrupt" => svc.ntx = 1)
        /\ (svc'.pc = "ret" /\ ~svc'.err) => svc'.ntx = 2
        /\ \A l \in Line :
              op'[l].name = "triggered" =>
                  /\ op'[l].ntx = 0
                  /\ op'[l] # op[l] => dev' = dev
      ]_vars

\* interrupt(B) is about to return Ok after two transactions, the second at
\* address 17, with the INTF byte it read first in the flag
C21_Witness ==
    /\ svc.pc = "ret" /\ ~svc.err /\ svc.bank = "B"
    /\ svc.ntx = 2 /\ svc.addr = 17
    /\ svc.intf_read = 1 /\ svc.intcap_read = 1
    /\ ctl.flag["B"] = 1 /\ ctl.capture["B"] = 1

(* C22: in interrupt, the two masks that are added, (capture AND NOT
   intf_read) and (intcap_read AND intf_read), have no bit in common: their
   sum never exceeds 255, and the byte stored is their sum and their
   bitwise OR. *)
C22_MasksDisjoint ==
    (svc.pc = "ret" /\ ~svc.err) =>
        LET masked_intcap == BitAnd(svc.intcap, BitNot(svc.intf_read))
            masked_intcap_read == BitAnd(svc.intcap_read, svc.intf_read)
        IN  /\ \A i \in 0..7 : Bit(masked_intcap, i) + Bit(masked_intcap_read, i) <= 1
            /\ masked_intcap + masked_intcap_read <= 255
            /\ ctl.capture[svc.bank] = masked_intcap + masked_intcap_read
            /\ \A i \in 0..7 :
                  Bit(ctl.capture[svc.bank], i) =
                      (IF Bit(masked_intcap, i) = 1 \/ Bit(masked_intcap_read, i) = 1
                       THEN 1 ELSE 0)

\* interrupt(A) loaded the capture 255 and read INTF = 170, INTCAP = 255: the
\* masks are 85 and 170 and the byte stored is 255
C22_Witness ==
    /\ svc.pc = "ret" /\ ~svc.err /\ svc.bank = "A"
    /\ svc.intcap = 255 /\ svc.intf_read = 170 /\ svc.intcap_read = 255
    /\ ctl.capture["A"] = 255

(* C23: in every state reached by interrupt and triggered calls that each ran
   to their end (interrupt returning Ok or failing at either read), every bit
   set in the capture of a bank is set in its flag: no level is stored for a
   line without an interrupt waiting. *)
C23_CaptureWithinFlag ==
    Quiet =>
        \A b \in Bank, i \in 0..7 :
            Bit(ctl.capture[b], i) = 1 => Bit(ctl.flag[b], i) = 1

\* after an interrupt call that failed and a triggered call that consumed the
\* interrupt of A0, A1 is waiting with level high and nothing is stored for A0
C23_Witness ==
    /\ Quiet /\ nfail = 1
    /\ pend[<<"A", 0>>] = "used" /\ pend[<<"A", 1>>] = "1"
    /\ ctl.flag["A"] = 2 /\ ctl.capture["A"] = 2

====
